---- MODULE Spec2Model ----
(***************************************************************************)
(* The "shell" migration driver of liamoneill/migrate.                     *)
(*                                                                         *)
(* Two builds of the driver exist behind the database.Driver interface:    *)
(*   - the relational one (database/shell/shell.go), which keeps the       *)
(*     version record in a PostgreSQL table and serialises instances with  *)
(*     a session-level advisory lock;                                      *)
(*   - the key-value one (the DynamoDB variant), which keeps the record in *)
(*     one item and whose Lock/Unlock/Drop/Close are empty.                *)
(* `driver` says which build the instances of a behaviour are; all         *)
(* instances of a behaviour point at the same (databaseName, schemaName).  *)
(*                                                                         *)
(* Specifications:                                                         *)
(*   Spec      every operation of the interface, one action per call       *)
(*             (SetVersion in two: up to the INSERT, then Commit);         *)
(*   SpecRun   Run() with its temporary directory, child and deadline;     *)
(*   SpecLock  Lock() of the relational build under fair scheduling;       *)
(*   SpecDrop  Drop() of the relational build, statement by statement;     *)
(*   SpecItem  Version() of the key-value build over arbitrary items.      *)
(***************************************************************************)
EXTENDS Integers, Sequences, FiniteSets, TLC

(* ---------------------------- bounds ----------------------------------- *)
MaxVersion == 0
TwoDigitVersion == 10
MaxTables == 1
PositiveTimeout == 1

(* ---------------------------- constants -------------------------------- *)
NilVersion == -1
MigrationsTable == "schema_migrations"
LatestMigrationVersion == "LatestMigrationVersion"

\* the competing driver instances (two handles on the same target)
Procs == {"p1", "p2"}
Versions == (NilVersion..MaxVersion) \cup {TwoDigitVersion}
TableNames == <<"a", "b", "c", "d">>
UserTables == {TableNames[i] : i \in 1..MaxTables}
Drivers == {"postgres", "dynamodb"}

\* the server sessions: the connection each instance pins (named after the
\* instance), and the other connections of the *sql.DB pool
Sessions == Procs \cup {"db"}

VARIABLES
  driver,     \* which build of the driver the instances are
  pc,         \* per instance: where its (single-threaded) caller is
  isLocked,   \* Shell.isLocked, per instance (relational build)
  advisory,   \* server side: times each session holds the advisory lock
  tables,     \* server side: base tables of the current schema
  rows,       \* server side: committed rows of the migrations table
  tableLock,  \* server side: sessions holding ACCESS EXCLUSIVE on the table
  tx,         \* per session: rows of the table as seen inside its open tx
  args,       \* per instance: arguments of the SetVersion call in progress
  item,       \* key-value store: attributes of the item under the fixed key
  critical,   \* per instance: between a successful Lock() and its Unlock()
  ret,        \* the call that returned last, and what it returned
  timeout,    \* the run timeout the configuration asks for (0: none)
  run,        \* per instance: the Run() in progress (temp dir, child, time)
  drop,       \* per instance: the Drop() in progress (tableNames, progress)
  conns       \* per instance: the server sessions its requests were sent on

vars == <<driver, pc, isLocked, advisory, tables, rows, tableLock, tx, args,
          item, critical, ret, timeout, run, drop,
          conns>>

server == <<advisory, tables, rows, tableLock, tx, item>>

Row(version, dirty) == [version |-> version, dirty |-> dirty]
NoArgs == Row(0, FALSE)

\* no Run() in progress: nothing on disk, no child process
NoRun == [tempDir |-> {}, child |-> "none", elapsed |-> 0]
\* no Drop() in progress
\* query: the Query of the database.Error the last Drop() returned
NoDrop == [tableNames |-> <<>>, dropped |-> {}, query |-> ""]

\* issued: whether the call sent a request to the backing store
Ret(op, err, version, dirty, issued) ==
  [op |-> op, err |-> err, version |-> version, dirty |-> dirty,
   issued |-> issued]
Return(op, err, issued) == Ret(op, err, 0, FALSE, issued)

(* ------------------ strconv.Itoa / strconv.Atoi ------------------------ *)
DigitChars == <<"0", "1", "2", "3", "4", "5", "6", "7", "8", "9">>

RECURSIVE FormatDigits(_)
FormatDigits(n) ==
  IF n < 10 THEN <<DigitChars[n + 1]>>
  ELSE FormatDigits(n \div 10) \o <<DigitChars[(n % 10) + 1]>>

Itoa(n) == IF n < 0 THEN <<"-">> \o FormatDigits(0 - n) ELSE FormatDigits(n)

IsDigit(c) == \E i \in 1..10 : DigitChars[i] = c
DigitValue(c) == (CHOOSE i \in 1..10 : DigitChars[i] = c) - 1

RECURSIVE ParseDigits(_, _)
ParseDigits(s, acc) ==
  IF s = <<>> THEN acc
  ELSE ParseDigits(Tail(s), acc * 10 + DigitValue(Head(s)))

\* [ok, n]: ok is FALSE where Atoi returns a *NumError
Atoi(s) ==
  LET body == IF s # <<>> /\ Head(s) \in {"-", "+"} THEN Tail(s) ELSE s
      neg == s # <<>> /\ Head(s) = "-"
  IN IF body = <<>> \/ \E i \in 1..Len(body) : ~IsDigit(body[i])
       THEN [ok |-> FALSE, n |-> 0]
       ELSE [ok |-> TRUE,
             n |-> IF neg THEN 0 - ParseDigits(body, 0) ELSE ParseDigits(body, 0)]

(* ------------------------- initial state ------------------------------- *)
Init ==
  /\ driver \in Drivers
  /\ pc = [p \in Procs |-> "unopened"]
  /\ isLocked = [p \in Procs |-> FALSE]
  /\ advisory = [s \in Sessions |-> 0]
  /\ tables \in IF driver = "postgres" THEN SUBSET UserTables ELSE {{}}
  /\ rows = {}
  /\ tableLock = {}
  /\ tx = [p \in Procs |-> {}]
  /\ args = [p \in Procs |-> NoArgs]
  /\ item = {}
  /\ critical = [p \in Procs |-> FALSE]
  /\ ret = Return("none", "nil", FALSE)
  /\ timeout \in IF driver = "dynamodb" THEN {0, PositiveTimeout} ELSE {0}
  /\ run = [p \in Procs |-> NoRun]
  /\ drop = [p \in Procs |-> NoDrop]
  /\ conns = [p \in Procs |-> {}]

(* ======================================================================= *)
(*            relational build: database/shell/shell.go                    *)
(* ======================================================================= *)

\* a handle that sends its statements through p.db: each one goes on
\* whatever connection the pool hands out
ConnFromPool(p) == "db"

\* p.conn, the connection instance.Conn() pinned for the handle: the session
\* every statement of the instance is sent on
Conn(p) == p

\* the instance sends a statement
Issued(p) == conns' = [conns EXCEPT ![p] = @ \cup {Conn(p)}]

\* pg_advisory_lock is granted to a session when no other session holds the
\* id generated from (DatabaseName, SchemaName); it is counted per session.
AdvisoryFree(p) == \A s \in Sessions \ {Conn(p)} : advisory[s] = 0
AdvisoryLock(p) == [advisory EXCEPT ![Conn(p)] = @ + 1]
AdvisoryUnlock(held, p) ==
  [held EXCEPT ![Conn(p)] = IF @ > 0 THEN @ - 1 ELSE 0]
\* a connection that goes back to a pool that stays open: the session
\* lives on and keeps what it holds
SessionEndKeepsLock(p) == advisory

\* the session ends: the server releases what it held
SessionEnd(p) == [advisory EXCEPT ![Conn(p)] = 0]

(* ---- WithInstance / ensureVersionTable -------------------------------- *)
\* an ensureVersionTable that unlocks at its end instead of deferring: the
\* return of a failed CREATE TABLE skips the Unlock()
ensureVersionTableNoDefer(p, created, unlocked) ==
  /\ tables' = IF created THEN tables \cup {MigrationsTable} ELSE tables
  /\ advisory' = IF created /\ unlocked THEN AdvisoryUnlock(AdvisoryLock(p), p)
                 ELSE AdvisoryLock(p)
  /\ isLocked' = [isLocked EXCEPT ![p] = ~(created /\ unlocked)]
  /\ ret' = Return("Open",
                   IF created /\ unlocked THEN "nil"
                   ELSE IF created THEN "unlock failed"
                   ELSE "create failed", TRUE)

\* ensureVersionTable, entered with the advisory lock free for this session:
\* p.Lock() has set isLocked; CREATE TABLE IF NOT EXISTS; the deferred
\* p.Unlock() clears isLocked when its statement succeeds.  The error is nil
\* only when both statements succeeded.
ensureVersionTable(p, created, unlocked) ==
  /\ tables' = IF created THEN tables \cup {MigrationsTable} ELSE tables
  /\ advisory' = IF unlocked THEN AdvisoryUnlock(AdvisoryLock(p), p)
                 ELSE AdvisoryLock(p)
  /\ isLocked' = [isLocked EXCEPT ![p] = ~unlocked]
  /\ ret' = Return("Open",
                   IF created /\ unlocked THEN "nil"
                   ELSE IF created THEN "unlock failed"
                   ELSE IF unlocked THEN "create failed"
                   ELSE "create failed; unlock failed", TRUE)

\* Ping, the CURRENT_DATABASE / CURRENT_SCHEMA queries, instance.Conn, then
\* ensureVersionTable, whose p.Lock() waits for the advisory lock.  The
\* handle is returned only when ensureVersionTable returned nil; a handle
\* that is not returned but could not unlock leaves its session holding the
\* lock ("failed").
WithInstance(p) ==
  /\ pc[p] = "unopened"
  /\ \/ /\ ret' = Return("Open", "error", FALSE)
        /\ UNCHANGED <<pc, isLocked, advisory, tables, conns>>
     \/ /\ ret' = Return("Open", "try lock failed", TRUE)
        /\ Issued(p)
        /\ UNCHANGED <<pc, isLocked, advisory, tables>>
     \/ /\ AdvisoryFree(p)
        /\ Issued(p)
        /\ \E created \in BOOLEAN, unlocked \in BOOLEAN :
             /\ ensureVersionTable(p, created, unlocked)
             /\ pc' = [pc EXCEPT ![p] = IF created /\ unlocked THEN "idle"
                                        ELSE IF unlocked THEN "unopened"
                                        ELSE "failed"]
  /\ UNCHANGED <<driver, timeout, run, drop, rows, tableLock, tx, args, item, critical>>

(* ---- Close ------------------------------------------------------------ *)
SqlClose(p) ==
  /\ pc[p] = "idle"
  /\ pc' = [pc EXCEPT ![p] = "closed"]
  /\ advisory' = SessionEnd(p)
  /\ \E ok \in BOOLEAN :
       ret' = Return("Close", IF ok THEN "nil" ELSE "conn: db:", FALSE)
  /\ UNCHANGED <<driver, timeout, run, drop, conns, isLocked, tables, rows, tableLock, tx, args, item,
                 critical>>

(* ---- Lock / Unlock ---------------------------------------------------- *)
\* Lock() is entered: an already locked handle gets ErrLocked at once,
\* otherwise the call goes on to wait in pg_advisory_lock.
SqlLockCall(p) ==
  /\ pc[p] = "idle"
  /\ IF isLocked[p]
       THEN /\ ret' = Return("Lock", "ErrLocked", FALSE)
            /\ UNCHANGED pc
       ELSE /\ pc' = [pc EXCEPT ![p] = "Lock"]
            /\ UNCHANGED ret
  /\ UNCHANGED <<driver, timeout, run, drop, conns, isLocked, server, args, critical>>

\* a Lock() that asks with pg_try_advisory_lock and gives up when another
\* session holds the lock
SqlLockExecTry(p) ==
  /\ pc[p] = "Lock"
  /\ \/ /\ AdvisoryFree(p)
        /\ advisory' = AdvisoryLock(p)
        /\ isLocked' = [isLocked EXCEPT ![p] = TRUE]
        /\ critical' = [critical EXCEPT ![p] = TRUE]
        /\ ret' = Return("Lock", "nil", TRUE)
     \/ /\ ~AdvisoryFree(p)
        /\ ret' = Return("Lock", "ErrLocked", TRUE)
        /\ UNCHANGED <<advisory, isLocked, critical>>
     \/ /\ ret' = Return("Lock", "try lock failed", TRUE)
        /\ UNCHANGED <<advisory, isLocked, critical>>
  /\ pc' = [pc EXCEPT ![p] = "idle"]
  /\ Issued(p)
  /\ UNCHANGED <<driver, timeout, run, drop, tables, rows, tableLock, tx, args,
                 item>>

\* the pg_advisory_lock statement returns: granted, or failed
SqlLockExec(p) ==
  /\ pc[p] = "Lock"
  /\ \/ /\ AdvisoryFree(p)
        /\ advisory' = AdvisoryLock(p)
        /\ isLocked' = [isLocked EXCEPT ![p] = TRUE]
        /\ critical' = [critical EXCEPT ![p] = TRUE]
        /\ ret' = Return("Lock", "nil", TRUE)
     \/ /\ ret' = Return("Lock", "try lock failed", TRUE)
        /\ UNCHANGED <<advisory, isLocked, critical>>
  /\ pc' = [pc EXCEPT ![p] = "idle"]
  /\ Issued(p)
  /\ UNCHANGED <<driver, timeout, run, drop, tables, rows, tableLock, tx, args, item>>

\* an Unlock() that clears isLocked before it sends the statement
SqlUnlockClearsFirst(p) ==
  /\ pc[p] = "idle"
  /\ IF ~isLocked[p]
       THEN /\ ret' = Return("Unlock", "nil", FALSE)
            /\ critical' = [critical EXCEPT ![p] = FALSE]
            /\ UNCHANGED <<advisory, isLocked, conns>>
       ELSE \E ok \in BOOLEAN :
              /\ Issued(p)
              /\ isLocked' = [isLocked EXCEPT ![p] = FALSE]
              /\ IF ok
                   THEN /\ advisory' = AdvisoryUnlock(advisory, p)
                        /\ critical' = [critical EXCEPT ![p] = FALSE]
                        /\ ret' = Return("Unlock", "nil", TRUE)
                   ELSE /\ ret' = Return("Unlock", "database.Error", TRUE)
                        /\ UNCHANGED <<advisory, critical>>
  /\ UNCHANGED <<driver, timeout, run, drop, pc, tables, rows, tableLock, tx, args, item>>

\* Unlock() without the isLocked guard
SqlUnlockUnguarded(p) ==
  /\ pc[p] = "idle"
  /\ \E ok \in BOOLEAN :
       IF ok
         THEN /\ advisory' = AdvisoryUnlock(advisory, p)
              /\ isLocked' = [isLocked EXCEPT ![p] = FALSE]
              /\ critical' = [critical EXCEPT ![p] = FALSE]
              /\ ret' = Return("Unlock", "nil", TRUE)
         ELSE /\ ret' = Return("Unlock", "database.Error", TRUE)
              /\ UNCHANGED <<advisory, isLocked, critical>>
  /\ Issued(p)
  /\ UNCHANGED <<driver, timeout, run, drop, pc, tables, rows, tableLock, tx, args, item>>

SqlUnlock(p) ==
  /\ pc[p] = "idle"
  /\ IF ~isLocked[p]
       THEN /\ ret' = Return("Unlock", "nil", FALSE)
            /\ critical' = [critical EXCEPT ![p] = FALSE]
            /\ UNCHANGED <<advisory, isLocked, conns>>
       ELSE \E ok \in BOOLEAN :
              /\ Issued(p)
              /\ IF ok
                   THEN /\ advisory' = AdvisoryUnlock(advisory, p)
                        /\ isLocked' = [isLocked EXCEPT ![p] = FALSE]
                        /\ critical' = [critical EXCEPT ![p] = FALSE]
                        /\ ret' = Return("Unlock", "nil", TRUE)
                   ELSE /\ ret' = Return("Unlock", "database.Error", TRUE)
                        /\ UNCHANGED <<advisory, isLocked, critical>>
  /\ UNCHANGED <<driver, timeout, run, drop, pc, tables, rows, tableLock, tx, args, item>>

(* ---- Run -------------------------------------------------------------- *)
\* TempDir, ReadAll, WriteFile, exec.Command(...).Run(); the deferred
\* RemoveAll runs on every path after TempDir succeeded.  No statement is
\* sent to the database.
\* a Run() that marks the stored record clean when the child succeeded
SqlRunClearsDirty(p) ==
  /\ pc[p] = "idle"
  /\ \E e \in {"nil", "TempDir", "ReadAll", "WriteFile", "launch", "exit status"} :
       /\ ret' = Return("Run", e, FALSE)
       /\ rows' = IF e = "nil" THEN {Row(r.version, FALSE) : r \in rows} ELSE rows
  /\ UNCHANGED <<driver, timeout, run, drop, conns, pc, isLocked, advisory, tables, tableLock,
                 tx, item, args, critical>>

SqlRunErrors == {"nil", "TempDir", "ReadAll", "WriteFile", "launch", "exit status"}

SqlRun(p) ==
  /\ pc[p] = "idle"
  /\ \E e \in SqlRunErrors : ret' = Return("Run", e, FALSE)
  /\ UNCHANGED <<driver, timeout, run, drop, conns, pc, isLocked, server, args, critical>>

(* ---- SetVersion ------------------------------------------------------- *)
\* the condition before the fix for the nil dirty version
ShouldInsertVersionOnly(version, dirty) == version >= 0

\* version >= 0 || (version == database.NilVersion && dirty)
ShouldInsert(version, dirty) == version >= 0 \/ (version = NilVersion /\ dirty)

\* no TRUNCATE before the INSERT
TruncateKeepsRows(rs) == rs

\* TRUNCATE: the table as the transaction sees it afterwards
Truncate(rs) == {}

\* INSERT that does not bind $2
InsertDropsDirty(rs, version, dirty) == rs \cup {Row(version, FALSE)}

\* INSERT ... VALUES ($1, $2); version is the primary key
PrimaryKeyFree(rs, version) == \A r \in rs : r.version # version
Insert(rs, version, dirty) == rs \cup {Row(version, dirty)}

\* statements run outside a transaction: what they wrote stays
RollbackKeepsWrites(committed, txrows) == txrows

\* the committed table after tx.Rollback() / tx.Commit() of a transaction
\* that sees the table as txrows
Rollback(committed, txrows) == committed
Commit(committed, txrows) == txrows

SetVersionError(rollback) ==
  Return("SetVersion",
         IF rollback THEN "database.Error" ELSE "database.Error; rollback failed",
         TRUE)

\* BeginTx, TRUNCATE and the conditional INSERT.  TRUNCATE takes ACCESS
\* EXCLUSIVE on the table (it waits while another session has it) and holds
\* it until the transaction ends; the statements before it change nothing,
\* so the call is one step up to tx.Commit().
SqlSetVersion(p, version, dirty) ==
  /\ pc[p] = "idle"
  /\ LET truncated == Truncate(rows) IN
     \/ /\ ret' = Return("SetVersion", "transaction start failed", TRUE)
        /\ UNCHANGED <<pc, rows, tableLock, tx, args>>
     \/ \* TRUNCATE fails (it must when the table does not exist)
        /\ \E rollback \in BOOLEAN : ret' = SetVersionError(rollback)
        /\ rows' = Rollback(rows, rows)
        /\ UNCHANGED <<pc, tableLock, tx, args>>
     \/ \* INSERT fails
        /\ MigrationsTable \in tables
        /\ tableLock = {}
        /\ ShouldInsert(version, dirty)
        /\ \E rollback \in BOOLEAN : ret' = SetVersionError(rollback)
        /\ rows' = Rollback(rows, truncated)
        /\ UNCHANGED <<pc, tableLock, tx, args>>
     \/ /\ MigrationsTable \in tables
        /\ tableLock = {}
        /\ ShouldInsert(version, dirty) => PrimaryKeyFree(truncated, version)
        /\ tableLock' = {Conn(p)}
        /\ tx' = [tx EXCEPT ![p] = IF ShouldInsert(version, dirty)
                                     THEN Insert(truncated, version, dirty)
                                     ELSE truncated]
        /\ args' = [args EXCEPT ![p] = Row(version, dirty)]
        /\ pc' = [pc EXCEPT ![p] = "SetVersion.Commit"]
        /\ UNCHANGED <<ret, rows>>
  /\ Issued(p)
  /\ UNCHANGED <<driver, timeout, run, drop, isLocked, advisory, tables, item, critical>>

\* tx.Commit()
SqlSetVersionCommit(p) ==
  /\ pc[p] = "SetVersion.Commit"
  /\ \E ok \in BOOLEAN :
       IF ok
         THEN /\ rows' = Commit(rows, tx[p])
              /\ ret' = Return("SetVersion", "nil", TRUE)
         ELSE /\ rows' = Rollback(rows, tx[p])
              /\ ret' = Return("SetVersion", "transaction commit failed", TRUE)
  /\ tableLock' = {}
  /\ tx' = [tx EXCEPT ![p] = {}]
  /\ pc' = [pc EXCEPT ![p] = "idle"]
  /\ args' = [args EXCEPT ![p] = NoArgs]
  /\ Issued(p)
  /\ UNCHANGED <<driver, timeout, run, drop, isLocked, advisory, tables, item, critical>>

(* ---- Version ---------------------------------------------------------- *)
\* what QueryRowContext(SELECT version, dirty ... LIMIT 1).Scan can give
QueryRowOutcomes ==
  {[kind |-> "error", row |-> NoArgs]} \cup
  (IF MigrationsTable \notin tables
     THEN {[kind |-> "undefined_table", row |-> NoArgs]}
   ELSE IF rows = {} THEN {[kind |-> "ErrNoRows", row |-> NoArgs]}
   ELSE {[kind |-> "row", row |-> r] : r \in rows})

\* the switch on err without the sql.ErrNoRows case
SqlVersionResultNoRowsIsError(o) ==
  CASE o.kind = "ErrNoRows" ->
         Ret("Version", "database.Error: sql.ErrNoRows", 0, FALSE, TRUE)
    [] o.kind = "undefined_table" ->
         Ret("Version", "nil", NilVersion, FALSE, TRUE)
    [] o.kind = "error" -> Ret("Version", "database.Error", 0, FALSE, TRUE)
    [] OTHER -> Ret("Version", "nil", o.row.version, o.row.dirty, TRUE)

\* the switch on err
SqlVersionResult(o) ==
  CASE o.kind = "ErrNoRows" -> Ret("Version", "nil", NilVersion, FALSE, TRUE)
    [] o.kind = "undefined_table" ->
         Ret("Version", "nil", NilVersion, FALSE, TRUE)
    [] o.kind = "error" -> Ret("Version", "database.Error", 0, FALSE, TRUE)
    [] OTHER -> Ret("Version", "nil", o.row.version, o.row.dirty, TRUE)

\* the SELECT waits while another session holds ACCESS EXCLUSIVE
SqlVersion(p) ==
  /\ pc[p] = "idle"
  /\ tableLock = {}
  /\ \E o \in QueryRowOutcomes : ret' = SqlVersionResult(o)
  /\ Issued(p)
  /\ UNCHANGED <<driver, timeout, run, drop, pc, isLocked, server, args, critical>>

(* ---- Drop ------------------------------------------------------------- *)
\* the tables left when the DROP TABLE loop has destroyed `dropped`
DropTables(ts, dropped) == ts \ dropped

\* The enumeration, then one DROP TABLE IF EXISTS ... CASCADE per table, in
\* the order the server listed them; the loop stops at the first failure.
SqlDrop(p) ==
  /\ pc[p] = "idle"
  /\ tableLock = {}
  /\ \/ /\ ret' = Return("Drop", "database.Error: query", TRUE)
        /\ UNCHANGED <<tables, rows>>
     \/ \E dropped \in SUBSET tables :
          /\ tables' = DropTables(tables, dropped)
          /\ rows' = IF MigrationsTable \in dropped THEN {} ELSE rows
          /\ ret' = Return("Drop",
                           IF dropped = tables THEN "nil"
                           ELSE "database.Error: drop", TRUE)
  /\ Issued(p)
  /\ UNCHANGED <<driver, timeout, run, drop, pc, isLocked, advisory, tableLock, tx, args, item,
                 critical>>

(* ---- the caller's process dies ---------------------------------------- *)
\* The session ends with the process: the server rolls back its open
\* transaction and releases its locks; the handle is gone.
Crash(p) ==
  /\ pc[p] \notin {"unopened", "closed"}
  /\ pc' = [pc EXCEPT ![p] = "closed"]
  /\ isLocked' = [isLocked EXCEPT ![p] = FALSE]
  /\ critical' = [critical EXCEPT ![p] = FALSE]
  /\ advisory' = SessionEnd(p)
  /\ tableLock' = tableLock \ {Conn(p)}
  /\ tx' = [tx EXCEPT ![p] = {}]
  /\ args' = [args EXCEPT ![p] = NoArgs]
  /\ UNCHANGED <<driver, timeout, run, drop, conns, tables, rows, item, ret>>

(* ======================================================================= *)
(*            key-value build: the DynamoDB variant                        *)
(* ======================================================================= *)

\* dynamodb.AttributeValue: `type` names the one field that is not nil
AttrS(s) == [type |-> "S", s |-> s, n |-> <<>>, b |-> FALSE]
AttrN(n) == [type |-> "N", s |-> "", n |-> n, b |-> FALSE]
AttrBOOL(b) == [type |-> "BOOL", s |-> "", n |-> <<>>, b |-> b]

\* an item is a set of <<attribute name, value>>; {} is "no item"
HasAttr(it, name) == \E a \in it : a[1] = name
GetAttr(it, name) == (CHOOSE a \in it : a[1] = name)[2]

\* Open: parses x-timeout, x-verbose, x-dynamodb-table and makes a session;
\* nothing is created in the store.
KvOpen(p) ==
  /\ pc[p] = "unopened"
  /\ \E ok \in BOOLEAN :
       IF ok
         THEN /\ pc' = [pc EXCEPT ![p] = "idle"]
              /\ ret' = Return("Open", "nil", FALSE)
         ELSE /\ ret' = Return("Open", "error", FALSE)
              /\ UNCHANGED pc
  /\ UNCHANGED <<driver, timeout, run, drop, conns, isLocked, server, args, critical>>

\* Run: as the relational one, with the context deadline when Timeout > 0
KvRunErrors ==
  {"nil", "TempDir", "ReadAll", "WriteFile", "launch", "exit status"} \cup
  (IF timeout > 0 THEN {"signal: killed"} ELSE {})

KvRun(p) ==
  /\ pc[p] = "idle"
  /\ \E e \in KvRunErrors : ret' = Return("Run", e, FALSE)
  /\ UNCHANGED <<driver, timeout, run, drop, conns, pc, isLocked, server, args, critical>>

\* the Item of the PutItemInput
PutItemInput(version, dirty) ==
  { <<"ID", AttrS(LatestMigrationVersion)>>,
    <<"Dirty", AttrBOOL(dirty)>>,
    <<"Version", AttrN(Itoa(version))>> }

KvSetVersion(p, version, dirty) ==
  /\ pc[p] = "idle"
  /\ \E ok \in BOOLEAN :
       IF ok
         THEN /\ item' = PutItemInput(version, dirty)
              /\ ret' = Return("SetVersion", "nil", TRUE)
         ELSE /\ ret' = Return("SetVersion", "PutItem", TRUE)
              /\ UNCHANGED item
  /\ UNCHANGED <<driver, timeout, run, drop, conns, pc, isLocked, advisory, tables, rows,
                 tableLock, tx, args, critical>>

\* a Version() that throws the error of strconv.Atoi away
KvVersionResultIgnoresAtoi(it) ==
  IF ~HasAttr(it, "ID") THEN Ret("Version", "nil", -1, FALSE, TRUE)
  ELSE IF ~HasAttr(it, "Version")
    THEN Ret("Version", "could not find Version", 0, FALSE, TRUE)
  ELSE IF GetAttr(it, "Version").type # "N"
    THEN Ret("Version", "expected Version to have type N", 0, FALSE, TRUE)
  ELSE
    LET version == Atoi(GetAttr(it, "Version").n).n
    IN IF ~HasAttr(it, "Dirty")
         THEN Ret("Version", "could not find Dirty", version, FALSE, TRUE)
       ELSE IF GetAttr(it, "Dirty").type # "BOOL"
         THEN Ret("Version", "expected Dirty to have type BOOL", version,
                  FALSE, TRUE)
       ELSE Ret("Version", "nil", version, GetAttr(it, "Dirty").b, TRUE)

\* Version(), from the item GetItem returned
KvVersionResult(it) ==
  IF ~HasAttr(it, "ID") THEN Ret("Version", "nil", -1, FALSE, TRUE)
  ELSE IF ~HasAttr(it, "Version")
    THEN Ret("Version", "could not find Version", 0, FALSE, TRUE)
  ELSE IF GetAttr(it, "Version").type # "N"
    THEN Ret("Version", "expected Version to have type N", 0, FALSE, TRUE)
  ELSE
    LET parsed == Atoi(GetAttr(it, "Version").n)
        version == parsed.n
        err == IF parsed.ok THEN "nil" ELSE "could not parse Version"
    IN IF ~HasAttr(it, "Dirty")
         THEN Ret("Version", "could not find Dirty", version, FALSE, TRUE)
       ELSE IF GetAttr(it, "Dirty").type # "BOOL"
         THEN Ret("Version", "expected Dirty to have type BOOL", version,
                  FALSE, TRUE)
       ELSE Ret("Version", err, version, GetAttr(it, "Dirty").b, TRUE)

KvVersion(p) ==
  /\ pc[p] = "idle"
  /\ \E ok \in BOOLEAN :
       ret' = IF ok THEN KvVersionResult(item)
              ELSE Ret("Version", "GetItem", 0, FALSE, TRUE)
  /\ UNCHANGED <<driver, timeout, run, drop, conns, pc, isLocked, server, args, critical>>

\* Close, Drop, Lock and Unlock are `return nil`
KvClose(p) ==
  /\ pc[p] = "idle"
  /\ pc' = [pc EXCEPT ![p] = "closed"]
  /\ ret' = Return("Close", "nil", FALSE)
  /\ UNCHANGED <<driver, timeout, run, drop, conns, isLocked, server, args, critical>>

KvDrop(p) ==
  /\ pc[p] = "idle"
  /\ ret' = Return("Drop", "nil", FALSE)
  /\ UNCHANGED <<driver, timeout, run, drop, conns, pc, isLocked, server, args, critical>>

KvLock(p) ==
  /\ pc[p] = "idle"
  /\ ret' = Return("Lock", "nil", FALSE)
  /\ critical' = [critical EXCEPT ![p] = TRUE]
  /\ UNCHANGED <<driver, timeout, run, drop, conns, pc, isLocked, server, args>>

KvUnlock(p) ==
  /\ pc[p] = "idle"
  /\ ret' = Return("Unlock", "nil", FALSE)
  /\ critical' = [critical EXCEPT ![p] = FALSE]
  /\ UNCHANGED <<driver, timeout, run, drop, conns, pc, isLocked, server, args>>

(* ======================================================================= *)
(*            the database.Driver interface                                *)
(* ======================================================================= *)
Sql == driver = "postgres"
Kv == driver = "dynamodb"

Open(p) ==
  \/ Sql /\ WithInstance(p)
  \/ Kv /\ KvOpen(p)
Close(p) == (Sql /\ SqlClose(p)) \/ (Kv /\ KvClose(p))
LockCall(p) == (Sql /\ SqlLockCall(p)) \/ (Kv /\ KvLock(p))
Lock(p) == LockCall(p) \/ (Sql /\ SqlLockExec(p))
Unlock(p) == (Sql /\ SqlUnlock(p)) \/ (Kv /\ KvUnlock(p))
Run(p) == (Sql /\ SqlRun(p)) \/ (Kv /\ KvRun(p))
SetVersionCall(p) ==
  \E version \in Versions, dirty \in BOOLEAN :
    (Sql /\ SqlSetVersion(p, version, dirty)) \/
    (Kv /\ KvSetVersion(p, version, dirty))
SetVersion(p) ==
  \/ SetVersionCall(p)
  \/ Sql /\ SqlSetVersionCommit(p)
Version(p) == (Sql /\ SqlVersion(p)) \/ (Kv /\ KvVersion(p))
Drop(p) == (Sql /\ SqlDrop(p)) \/ (Kv /\ KvDrop(p))

Next ==
  \E p \in Procs :
    \/ Open(p)
    \/ Close(p)
    \/ Lock(p)
    \/ Unlock(p)
    \/ Run(p)
    \/ SetVersion(p)
    \/ Version(p)
    \/ Drop(p)
    \/ Crash(p)

Spec == Init /\ [][Next]_vars

(* ======================================================================= *)
(*   Run(), step by step: the temporary directory, the child, the deadline *)
(* ======================================================================= *)
\* both handles have been opened and returned
OpenedInit ==
  /\ pc = [p \in Procs |-> "idle"]
  /\ isLocked = [p \in Procs |-> FALSE]
  /\ advisory = [s \in Sessions |-> 0]
  /\ conns = [p \in Procs |-> IF driver = "postgres" THEN {Conn(p)} ELSE {}]
  /\ tables \in IF driver = "postgres"
                  THEN {ts \cup {MigrationsTable} : ts \in SUBSET UserTables}
                  ELSE {{}}
  /\ rows = {}
  /\ tableLock = {}
  /\ tx = [p \in Procs |-> {}]
  /\ args = [p \in Procs |-> NoArgs]
  /\ critical = [p \in Procs |-> FALSE]
  /\ ret = Return("none", "nil", FALSE)
  /\ run = [p \in Procs |-> NoRun]
  /\ drop = [p \in Procs |-> NoDrop]

\* how long a child is followed past the longest deadline
MaxElapsed == PositiveTimeout + 1

\* the directory ioutil.TempDir made, and the file WriteFile put into it
TempDir == {"tempDir"}
TempDirAndFile == {"tempDir", "tempDir/migration"}

\* a cleanup at the end of Run() that only the nil return reaches
RemoveAllOnSuccess(paths, err) == IF err = "nil" THEN {} ELSE paths

\* defer os.RemoveAll(tempDir): what is left of `paths` when Run() returns
\* `err`; the deferred call runs on every return after TempDir succeeded
DeferredRemoveAll(paths, err) == {}

\* TempDir, ReadAll, WriteFile and the start of the child; Run() then waits
\* in cmd.Run()
RunStart(p) ==
  /\ pc[p] = "idle"
  /\ \/ /\ ret' = Return("Run", "TempDir", FALSE)
        /\ UNCHANGED <<pc, run>>
     \/ \E e \in {"ReadAll", "WriteFile", "launch"} :
          /\ ret' = Return("Run", e, FALSE)
          /\ run' = [run EXCEPT ![p].tempDir =
                       DeferredRemoveAll(IF e = "ReadAll" THEN TempDir
                                         ELSE TempDirAndFile, e)]
          /\ UNCHANGED pc
     \/ /\ run' = [run EXCEPT ![p] = [tempDir |-> TempDirAndFile,
                                      child |-> "running", elapsed |-> 0]]
        /\ pc' = [pc EXCEPT ![p] = "Run"]
        /\ UNCHANGED ret
  /\ UNCHANGED <<driver, timeout, drop, conns, isLocked, server, args, critical>>

\* time passes while exec.Command(path).Run() waits: nothing bounds the wait
SqlRunTick(p) ==
  /\ pc[p] = "Run"
  /\ run[p].elapsed < MaxElapsed
  /\ run' = [run EXCEPT ![p].elapsed = @ + 1]
  /\ UNCHANGED <<driver, timeout, drop, conns, pc, isLocked, server, args, critical,
                 ret>>

\* time passes while exec.CommandContext(ctx, path).Run() waits: with
\* Timeout > 0 the context is done at the deadline
KvRunTick(p) ==
  /\ pc[p] = "Run"
  /\ run[p].elapsed < MaxElapsed
  /\ timeout > 0 => run[p].elapsed < timeout
  /\ run' = [run EXCEPT ![p].elapsed = @ + 1]
  /\ UNCHANGED <<driver, timeout, drop, conns, pc, isLocked, server, args, critical,
                 ret>>

\* the child exits by itself; cmd.Run() returns nil or an *exec.ExitError
RunChildExits(p) ==
  /\ pc[p] = "Run"
  /\ \E e \in {"nil", "exit status"} :
       /\ ret' = Return("Run", e, FALSE)
       /\ run' = [run EXCEPT ![p] =
                    [NoRun EXCEPT !.tempDir = DeferredRemoveAll(run[p].tempDir, e)]]
  /\ pc' = [pc EXCEPT ![p] = "idle"]
  /\ UNCHANGED <<driver, timeout, drop, conns, isLocked, server, args, critical>>

\* the context's deadline passes: the child is killed and cmd.Run() returns
\* the error of a process ended by a signal
KvRunDeadline(p) ==
  /\ pc[p] = "Run"
  /\ timeout > 0
  /\ run[p].elapsed = timeout
  /\ ret' = Return("Run", "signal: killed", FALSE)
  /\ run' = [run EXCEPT ![p] =
               [NoRun EXCEPT !.tempDir =
                  DeferredRemoveAll(run[p].tempDir, "signal: killed")]]
  /\ pc' = [pc EXCEPT ![p] = "idle"]
  /\ UNCHANGED <<driver, timeout, drop, conns, isLocked, server, args, critical>>

\* opened handles of either build, with or without x-timeout in the URL
InitRun ==
  /\ driver \in Drivers
  /\ timeout \in {0, PositiveTimeout}
  /\ item = {}
  /\ OpenedInit

NextRun ==
  \E p \in Procs :
    \/ RunStart(p)
    \/ Sql /\ SqlRunTick(p)
    \/ Kv /\ KvRunTick(p)
    \/ RunChildExits(p)
    \/ Kv /\ KvRunDeadline(p)

SpecRun == InitRun /\ [][NextRun]_vars

(* ======================================================================= *)
(*   Version() of the key-value build over items written by anyone         *)
(* ======================================================================= *)
\* what may be stored under the Version attribute: nothing, a number as
\* SetVersion writes it, a number that is not an integer, or another type
VersionAttrs ==
  {{<<"Version", AttrN(Itoa(v))>>} : v \in Versions} \cup
  { {}, {<<"Version", AttrN(<<>>)>>}, {<<"Version", AttrN(<<"1", ".", "5">>)>>},
    {<<"Version", AttrN(<<"x">>)>>}, {<<"Version", AttrS("10")>>},
    {<<"Version", AttrBOOL(TRUE)>>} }

\* what may be stored under the Dirty attribute
DirtyAttrs ==
  { {}, {<<"Dirty", AttrBOOL(TRUE)>>}, {<<"Dirty", AttrBOOL(FALSE)>>},
    {<<"Dirty", AttrS("true")>>}, {<<"Dirty", AttrN(<<"1">>)>>} }

\* the items the table can hold under the key: the key attribute is there
\* whenever the item is
StoredItems ==
  {{}} \cup
  {{<<"ID", AttrS(LatestMigrationVersion)>>} \cup v \cup d :
     v \in VersionAttrs, d \in DirtyAttrs}

\* opened key-value handles on a table whose item anyone may have written
InitItem ==
  /\ driver = "dynamodb"
  /\ timeout = 0
  /\ item \in StoredItems
  /\ OpenedInit

NextItem ==
  \E p \in Procs :
    \/ KvVersion(p)
    \/ \E version \in Versions, dirty \in BOOLEAN : KvSetVersion(p, version, dirty)

SpecItem == InitItem /\ [][NextItem]_vars

(* ======================================================================= *)
(*   Lock() of the relational build under fair scheduling                  *)
(* ======================================================================= *)
\* the store serves the pg_advisory_lock statement of the waiting Lock()
LockServed(p) == SqlLockExec(p) /\ ret'.err # "try lock failed"

\* the holder gives the lock back: its Unlock() succeeds, or it closes its
\* session
Release(p) ==
  /\ advisory[p] > 0
  /\ SqlUnlock(p) \/ SqlClose(p)
  /\ advisory'[p] = 0

\* opened handles of the relational build
InitLock ==
  /\ driver = "postgres"
  /\ timeout = 0
  /\ item = {}
  /\ OpenedInit

NextLock ==
  \E p \in Procs :
    \/ SqlLockCall(p)
    \/ LockServed(p)
    \/ SqlUnlock(p)
    \/ SqlClose(p)
    \/ SqlVersion(p)
    \/ \E version \in Versions, dirty \in BOOLEAN : SqlSetVersion(p, version, dirty)
    \/ SqlSetVersionCommit(p)

\* the store grants the lock fairly, every holder gives it back, and a
\* SetVersion() in progress returns
SpecLock ==
  /\ InitLock
  /\ [][NextLock]_vars
  /\ \A p \in Procs :
       /\ SF_vars(LockServed(p))
       /\ SF_vars(Release(p))
       /\ WF_vars(SqlSetVersionCommit(p))

(* ======================================================================= *)
(*   Drop() of the relational build, statement by statement                *)
(* ======================================================================= *)
\* the orders in which the server may list the tables `ts`
Orders(ts) ==
  {o \in [1..Cardinality(ts) -> ts] : \A i, j \in DOMAIN o : o[i] = o[j] => i = j}

\* the enumerating query and the scan of its rows into tableNames
SqlDropQuery(p) ==
  /\ pc[p] = "idle"
  /\ \/ /\ ret' = Return("Drop", "database.Error: query", TRUE)
        /\ drop' = [drop EXCEPT ![p] = [NoDrop EXCEPT !.query = "SELECT table_name"]]
        /\ UNCHANGED pc
     \/ \E o \in Orders(tables) :
          /\ drop' = [drop EXCEPT ![p] = [NoDrop EXCEPT !.tableNames = o]]
          /\ pc' = [pc EXCEPT ![p] = "Drop"]
          /\ UNCHANGED ret
  /\ Issued(p)
  /\ UNCHANGED <<driver, timeout, run, isLocked, server, args, critical>>

\* a Drop() that runs its statements in one transaction and rolls it back
\* at the first failure
SqlDropExecRollsBack(p) ==
  /\ pc[p] = "Drop"
  /\ IF drop[p].tableNames = <<>>
       THEN /\ ret' = Return("Drop", "nil", TRUE)
            /\ pc' = [pc EXCEPT ![p] = "idle"]
            /\ UNCHANGED <<drop, tables, rows>>
       ELSE LET t == Head(drop[p].tableNames)
            IN /\ t = MigrationsTable => tableLock = {}
               /\ \/ /\ tables' = tables \ {t}
                     /\ rows' = IF t = MigrationsTable THEN {} ELSE rows
                     /\ drop' = [drop EXCEPT ![p].tableNames = Tail(@),
                                             ![p].dropped = @ \cup {t}]
                     /\ UNCHANGED <<pc, ret>>
                  \/ /\ ret' = Return("Drop", "database.Error: drop", TRUE)
                     /\ drop' = [drop EXCEPT ![p].tableNames = <<>>,
                                             ![p].query = t]
                     /\ pc' = [pc EXCEPT ![p] = "idle"]
                     /\ tables' = tables \cup drop[p].dropped
                     /\ UNCHANGED rows
  /\ Issued(p)
  /\ UNCHANGED <<driver, timeout, run, isLocked, advisory, tableLock, tx, args,
                 item, critical>>

\* the next DROP TABLE IF EXISTS ... CASCADE of the loop, or the return
\* after the last one; a failing statement ends the loop with its error
SqlDropExec(p) ==
  /\ pc[p] = "Drop"
  /\ IF drop[p].tableNames = <<>>
       THEN /\ ret' = Return("Drop", "nil", TRUE)
            /\ pc' = [pc EXCEPT ![p] = "idle"]
            /\ UNCHANGED <<drop, tables, rows>>
       ELSE LET t == Head(drop[p].tableNames)
            IN /\ t = MigrationsTable => tableLock = {}
               /\ \/ /\ tables' = tables \ {t}
                     /\ rows' = IF t = MigrationsTable THEN {} ELSE rows
                     /\ drop' = [drop EXCEPT ![p].tableNames = Tail(@),
                                             ![p].dropped = @ \cup {t}]
                     /\ UNCHANGED <<pc, ret>>
                  \/ /\ ret' = Return("Drop", "database.Error: drop", TRUE)
                     /\ drop' = [drop EXCEPT ![p].tableNames = <<>>,
                                             ![p].query = t]
                     /\ pc' = [pc EXCEPT ![p] = "idle"]
                     /\ UNCHANGED <<tables, rows>>
  /\ Issued(p)
  /\ UNCHANGED <<driver, timeout, run, isLocked, advisory, tableLock, tx, args,
                 item, critical>>

NextDrop ==
  \E p \in Procs :
    \/ SqlDropQuery(p)
    \/ SqlDropExec(p)
    \/ \E version \in Versions, dirty \in BOOLEAN : SqlSetVersion(p, version, dirty)
    \/ SqlSetVersionCommit(p)

\* starts from opened handles of the relational build (InitLock)
SpecDrop == InitLock /\ [][NextDrop]_vars

(* ======================================================================= *)
(*            properties                                                   *)
(* ======================================================================= *)
Opened(p) == pc[p] \notin {"unopened", "closed"}

\* the instance is between a successful Lock() and its Unlock(): the
\* relational handle says so in isLocked, the key-value handle has no field
InCriticalSection(p) == IF Sql THEN isLocked[p] ELSE critical[p]

\* the version store as another instance can read it
Stored == <<rows, item>>
IsStored(version, dirty) ==
  IF Sql THEN rows = {Row(version, dirty)}
  ELSE item = PutItemInput(version, dirty)
StoreEmpty == IF Sql THEN rows = {} ELSE item = {}

\* what Version() returns in this state when the backing store answers
VersionAnswers ==
  IF Sql
    THEN {SqlVersionResult(o) : o \in {x \in QueryRowOutcomes : x.kind # "error"}}
    ELSE {KvVersionResult(item)}
VersionIs(version, dirty) == Ret("Version", "nil", version, dirty, TRUE)
BackendFailures == {"database.Error", "GetItem"}

\* SetVersion(version, dirty) of p returns nil in this step
SetVersionSucceeds(p, version, dirty) ==
  /\ ret' = Return("SetVersion", "nil", TRUE)
  /\ \/ Sql /\ args[p] = Row(version, dirty) /\ SqlSetVersionCommit(p)
     \/ Kv /\ KvSetVersion(p, version, dirty)

\* C1: two instances opened against the same target are never both between
\* a successful Lock() and its Unlock(), in either build.
C1_MutualExclusion ==
  \A p, q \in Procs :
    (p # q /\ Opened(p) /\ Opened(q)) =>
      ~(InCriticalSection(p) /\ InCriticalSection(q))

\* C1, the relational build alone: at most one open handle has isLocked.
C1_MutualExclusionRelational == Sql => C1_MutualExclusion

\* C2: when SetVersion(version, dirty) returns nil, a Version() that follows
\* at once returns exactly (version, dirty) and no error, for every version
\* >= -1 and either dirty, (-1, false) included.
C2_RoundTrip ==
  [][ret' = Return("SetVersion", "nil", TRUE) =>
       \A p \in Procs, version \in Versions, dirty \in BOOLEAN :
         SetVersionSucceeds(p, version, dirty) =>
           VersionAnswers' = {VersionIs(version, dirty)}]_vars

C2_Witness ==
  /\ ret = VersionIs(TwoDigitVersion, TRUE)
  /\ IsStored(TwoDigitVersion, TRUE)

\* C3: SetVersion is atomic.  No step of a SetVersion call changes the store
\* that other instances read, except the step in which the call returns nil;
\* so a call that returns an error has left the record as it was, and no
\* Version() of another instance sees the cleared state in between.
C3_SetVersionAtomic ==
  [][(Stored' # Stored \/ VersionAnswers' # VersionAnswers) =>
       \A p \in Procs :
         SetVersion(p) =>
           (pc'[p] = "idle" /\ ret' = Return("SetVersion", "nil", TRUE))]_vars

\* a SetVersion that cleared the table and then failed, the record still there
C3_Witness ==
  /\ ret = Return("SetVersion", "transaction commit failed", TRUE)
  /\ rows # {}

\* C4: the driver never clears dirty state by itself.  A stored (v, true)
\* stays (v, true) over every step that is not SetVersion or Drop: Open,
\* Run (whatever its outcome), Lock, Unlock, Version, Close and a crash of
\* the caller; and Run sends nothing to the store.
C4_DirtyNeverAutoCleared ==
  [][\A p \in Procs :
       /\ (\E version \in Versions :
             IsStored(version, TRUE) /\ ~IsStored(version, TRUE)') =>
            ~(Open(p) \/ Run(p) \/ Lock(p) \/ Unlock(p) \/ Version(p)
                \/ Close(p) \/ Crash(p))
       /\ (Stored' # Stored \/ ret'.issued) => ~Run(p)]_vars

\* a failed Run() with the record dirty
C4_Witness ==
  /\ ret = Return("Run", "exit status", FALSE)
  /\ \E version \in Versions : IsStored(version, TRUE)

\* C5: SetVersion(-1, true) stores a record: the store is not empty
\* afterwards and Version() returns (-1, true), unlike the (-1, false) of a
\* target never written; SetVersion(-1, false) of the relational build
\* leaves the table empty.
C5_NilDirtyStored ==
  [][ret' = Return("SetVersion", "nil", TRUE) => \A p \in Procs :
       /\ SetVersionSucceeds(p, NilVersion, TRUE) =>
            /\ ~StoreEmpty'
            /\ VersionAnswers' = {VersionIs(NilVersion, TRUE)}
       /\ (Sql /\ SetVersionSucceeds(p, NilVersion, FALSE)) => rows' = {}]_vars

C5_Witness ==
  /\ Sql
  /\ rows = {Row(NilVersion, TRUE)}
  /\ ret = VersionIs(NilVersion, TRUE)

\* C6: Version() on a store that exists and holds no record returns
\* (-1, false) and no error; the only error it can return there is the
\* backing store's failure to answer.
StoreExistsEmpty ==
  IF Sql THEN MigrationsTable \in tables /\ rows = {} ELSE item = {}

C6_VersionOfEmptyStore ==
  [][\A p \in Procs :
       (StoreExistsEmpty /\ ret'.op = "Version" /\ Version(p)) =>
         \/ ret' = VersionIs(NilVersion, FALSE)
         \/ ret'.err \in BackendFailures]_vars

C6_Witness ==
  /\ StoreExistsEmpty
  /\ ret = VersionIs(NilVersion, FALSE)

\* C7: the version store holds at most one record in every reachable state:
\* at most one row in the table, at most one item (one ID, one Version and
\* one Dirty attribute) under the fixed key.
C7_SingleRecord ==
  /\ Cardinality(rows) <= 1
  /\ \A name \in {"ID", "Version", "Dirty"} :
       Cardinality({a \in item : a[1] = name}) <= 1
  /\ \A a \in item : a[1] = "ID" => a[2] = AttrS(LatestMigrationVersion)

\* a SetVersion has returned nil and left one row
C7_Witness ==
  /\ Sql
  /\ Cardinality(rows) = 1
  /\ ret = Return("SetVersion", "nil", TRUE)
  /\ \A p \in Procs : pc[p] = "idle"

\* C8: Lock() on a handle that already holds the lock returns the
\* already-locked error at once, sends no acquire request and leaves the
\* handle locked, in either build.
C8_LockWhenLocked ==
  [][\A p \in Procs :
       (LockCall(p) /\ InCriticalSection(p)) =>
         /\ ret' = Return("Lock", "ErrLocked", FALSE)
         /\ pc'[p] = "idle"
         /\ InCriticalSection(p)'
         /\ advisory' = advisory]_vars

\* C8, the relational build alone
C8_LockWhenLockedRelational ==
  [][\A p \in Procs :
       (Sql /\ LockCall(p) /\ isLocked[p]) =>
         /\ ret' = Return("Lock", "ErrLocked", FALSE)
         /\ pc'[p] = "idle"
         /\ isLocked'[p]
         /\ advisory' = advisory]_vars

\* C9: Unlock() on a handle that does not hold the lock returns nil, sends
\* no release request and changes nothing: the handle stays unlocked and
\* the server's lock is as it was.
C9_UnlockIdempotent ==
  [][\A p \in Procs :
       (ret'.op = "Unlock" /\ ~InCriticalSection(p) /\ ~isLocked[p]
          /\ Unlock(p)) =>
         /\ ret' = Return("Unlock", "nil", FALSE)
         /\ ~InCriticalSection(p)'
         /\ UNCHANGED <<pc, isLocked, critical, server>>]_vars

\* an Unlock() that found the handle unlocked, after the lock had been used
C9_Witness ==
  /\ Sql
  /\ ret = Return("Unlock", "nil", FALSE)
  /\ \A p \in Procs : pc[p] = "idle" /\ ~isLocked[p]

\* C10: a Drop() that returns nil leaves no table, and a Version() after it
\* returns (-1, false) and no error whatever had been stored, in either
\* build.
C10_DropResets ==
  [][\A p \in Procs :
       (Drop(p) /\ ret'.err = "nil") =>
         /\ tables' = {}
         /\ VersionAnswers' = {VersionIs(NilVersion, FALSE)}]_vars

\* C10, the relational build alone
C10_DropResetsRelational ==
  [][\A p \in Procs :
       (Sql /\ Drop(p) /\ ret'.err = "nil") =>
         /\ tables' = {}
         /\ VersionAnswers' = {VersionIs(NilVersion, FALSE)}]_vars

(* ---- C11 --------------------------------------------------------------- *)
\* a Run() with a positive timeout never has its child running past the
\* deadline
ChildWithinDeadline(p) ==
  (pc[p] = "Run" /\ timeout > 0) => run[p].elapsed <= timeout

\* a Run() returns the killed-by-signal error only at the deadline of a
\* positive timeout, and without a timeout it returns only what the child's
\* own exit gives
RunReturnsByKind(p) ==
  (pc[p] = "Run" /\ pc'[p] = "idle") =>
    /\ ret'.op = "Run"
    /\ run'[p].child = "none"
    /\ ret'.err = "signal: killed" => (timeout > 0 /\ run[p].elapsed = timeout)
    /\ timeout = 0 => ret'.err \in {"nil", "exit status"}

\* C11: in every build, when a positive run timeout is configured and the
\* child is still running at the deadline, the child is terminated and Run()
\* returns an error of the timeout kind, different from the errors of a
\* non-zero exit and of a failed launch; with no timeout Run() returns only
\* when the child exits.
C11_RunDeadline ==
  /\ [](\A p \in Procs : ChildWithinDeadline(p))
  /\ [][\A p \in Procs : RunReturnsByKind(p)]_vars

\* C11 for the key-value build alone, whose Run() has the context deadline
C11_RunDeadlineKeyValue ==
  /\ [](Kv => \A p \in Procs : ChildWithinDeadline(p))
  /\ [][Kv => \A p \in Procs : RunReturnsByKind(p)]_vars

\* a Run() of the key-value build has returned at its deadline
C11_Witness ==
  /\ Kv
  /\ timeout > 0
  /\ ret = Return("Run", "signal: killed", FALSE)
  /\ \A p \in Procs : pc[p] = "idle"

(* ---- C16 --------------------------------------------------------------- *)
\* C16: on every exit path of Run() after the temporary directory was made
\* (read failure, write failure, launch failure, non-zero exit, timeout,
\* success) the directory and the file are gone when Run() has returned:
\* they exist only while a Run() of the instance is waiting for its child.
C16_RunCleansUp ==
  \A p \in Procs : pc[p] # "Run" => run[p].tempDir = {}

\* a Run() whose child ended with a non-zero status has returned, and
\* nothing of it is left on disk
C16_Witness ==
  /\ ret = Return("Run", "exit status", FALSE)
  /\ \A p \in Procs : pc[p] = "idle" /\ run[p].tempDir = {}

(* ---- C12 --------------------------------------------------------------- *)
\* C12: a Lock() on a handle whose isLocked is false waits for the lock and
\* eventually returns success with isLocked true, provided every holder
\* eventually unlocks or closes its session and the store grants fairly; it
\* never returns an error because another instance holds the lock.
C12_LockEventuallyGranted ==
  /\ \A p \in Procs : (pc[p] = "Lock") ~> isLocked[p]
  /\ [][\A p \in Procs :
          (pc[p] = "Lock" /\ pc'[p] # "Lock") =>
            (ret' = Return("Lock", "nil", TRUE) /\ isLocked'[p])]_vars

\* an instance holds the lock that it had to wait for: the other one has
\* closed its session without Unlock()
C12_Witness ==
  \E p \in Procs, q \in Procs :
    /\ p # q
    /\ pc[p] = "idle" /\ isLocked[p] /\ advisory[p] = 1
    /\ pc[q] = "closed" /\ isLocked[q]

(* ---- C13 --------------------------------------------------------------- *)
\* what is wrong with a stored item, in the words of the schema errors
Defects(it) ==
  (IF ~HasAttr(it, "Version") THEN {"could not find Version"}
   ELSE IF GetAttr(it, "Version").type # "N"
     THEN {"expected Version to have type N"}
   ELSE IF \A v \in Versions : GetAttr(it, "Version").n # Itoa(v)
     THEN {"could not parse Version"}
   ELSE {}) \cup
  (IF ~HasAttr(it, "Dirty") THEN {"could not find Dirty"}
   ELSE IF GetAttr(it, "Dirty").type # "BOOL"
     THEN {"expected Dirty to have type BOOL"}
   ELSE {})

Corrupt(it) == HasAttr(it, "ID") /\ Defects(it) # {}

\* C13: when the stored item exists but lacks Version or Dirty, or has one
\* of them with the wrong type, or has a Version that does not parse, a
\* Version() that the store served returns a non-nil error that names a
\* defect the item has, never a (version, dirty) pair with a nil error.
C13_CorruptionReported ==
  [][\A p \in Procs :
       (ret'.op = "Version" /\ ret'.err # "GetItem" /\ Corrupt(item)
        /\ KvVersion(p))
         => ret'.err \in Defects(item)]_vars

\* Version() has reported the unparsable Version of an item whose Dirty
\* attribute is in order
C13_Witness ==
  /\ ret.op = "Version"
  /\ ret.err = "could not parse Version"
  /\ Defects(item) = {"could not parse Version"}

(* ---- C14 --------------------------------------------------------------- *)
\* the names in a sequence of table names
Names(seq) == {seq[i] : i \in DOMAIN seq}

\* C14: when the DROP TABLE of the k-th enumerated table fails, Drop()
\* returns the error of that statement, the tables it destroyed before stay
\* destroyed, the remaining ones are left as they are, and nothing is
\* rolled back.
C14_DropNotTransactional ==
  [][\A p \in Procs :
       (pc[p] = "Drop" /\ pc'[p] = "idle" /\ ret'.err = "database.Error: drop")
         => /\ drop'[p].query = Head(drop[p].tableNames)
            /\ tables' = tables
            /\ rows' = rows
            /\ tables' \cap drop'[p].dropped = {}
            /\ Names(drop[p].tableNames) \cap tables \subseteq tables']_vars

\* a Drop() has failed at its second table: the first one is gone, the
\* failing one is still there
C14_Witness ==
  \E p \in Procs :
    /\ pc[p] = "idle"
    /\ ret = Return("Drop", "database.Error: drop", TRUE)
    /\ drop[p].dropped # {}
    /\ drop[p].query \in tables

(* ---- C15 --------------------------------------------------------------- *)
\* C15: when Open/WithInstance of the relational build returns a handle, the
\* migrations table exists and the handle is unlocked (isLocked false, the
\* advisory lock given back); the table is created only in a call that holds
\* the lock, so never while another session holds it; and every return of
\* ensureVersionTable has released the lock, a failed CREATE TABLE included,
\* unless the Unlock() itself failed, which the error then reports next to
\* the first error.
C15_OpenPostcondition ==
  [][\A p \in Procs :
       (ret'.op = "Open" /\ pc[p] = "unopened" /\ Sql /\ WithInstance(p))
         => /\ ret'.err = "nil" =>
                 /\ pc'[p] = "idle"
                 /\ MigrationsTable \in tables'
                 /\ ~isLocked'[p] /\ advisory'[p] = 0
            /\ pc'[p] = "idle" => ret'.err = "nil"
            /\ tables' # tables => AdvisoryFree(p)
            /\ (isLocked'[p] \/ advisory'[p] > 0) =>
                 ret'.err \in {"unlock failed", "create failed; unlock failed"}
            /\ (ret'.err = "create failed; unlock failed") =>
                 (tables' = tables /\ advisory'[p] > 0)]_vars

\* a handle has been returned: the table is there, the handle is unlocked
C15_Witness ==
  /\ Sql
  /\ ret = Return("Open", "nil", TRUE)
  /\ MigrationsTable \in tables
  /\ \E p \in Procs : pc[p] = "idle" /\ ~isLocked[p] /\ advisory[p] = 0

(* ---- C17 --------------------------------------------------------------- *)
\* C17: Close() on a handle whose isLocked is true sends no release request
\* and leaves isLocked as it is; it only gives up the connection.  The
\* session ends with it, so the lock is not left held: after the Close()
\* the Lock() of another instance can be granted.
C17_CloseDoesNotUnlock ==
  [][\A p \in Procs :
       (ret'.op = "Close" /\ pc[p] = "idle" /\ Close(p))
         => /\ ~ret'.issued
            /\ isLocked' = isLocked
            /\ advisory'[p] = 0
            /\ isLocked[p] => \A q \in Procs \ {p} : AdvisoryFree(q)']_vars

\* Close() has just returned on a handle that was locked and still says so,
\* and its session holds nothing
C17_Witness ==
  /\ Sql
  /\ ret.op = "Close"
  /\ \E p \in Procs : pc[p] = "closed" /\ isLocked[p] /\ advisory[p] = 0
  /\ \A q \in Procs : advisory[q] = 0

(* ---- C18 --------------------------------------------------------------- *)
\* C18: every statement of an instance (the acquire of Lock(), the release
\* of Unlock(), Version(), SetVersion(), Drop(), the creation of the
\* migrations table) is sent on the one connection pinned for the instance
\* at open time: no statement of it reaches another session, so no other
\* session ever holds a lock for it, and the session that holds the advisory
\* lock is the one its own instance sent the acquire on.
C18_SessionPinning ==
  /\ \A p \in Procs : conns[p] \subseteq {p}
  /\ \A s \in Sessions \ Procs : advisory[s] = 0 /\ s \notin tableLock
  /\ \A p \in Procs : (advisory[p] > 0 \/ p \in tableLock) => conns[p] = {p}

\* an instance has acquired and released the lock, all on its own session
C18_Witness ==
  /\ Sql
  /\ ret = Return("Unlock", "nil", TRUE)
  /\ \E p \in Procs :
       /\ pc[p] = "idle" /\ conns[p] = {p}
       /\ ~isLocked[p] /\ advisory[p] = 0

(* ---- C19 --------------------------------------------------------------- *)
\* the handle has been returned by Open and is not closed
OpenHandle(p) == pc[p] \in {"idle", "Lock", "SetVersion.Commit", "Run", "Drop"}

\* C19: in the relational build, on an open handle, isLocked is true
\* exactly when the handle's session holds the advisory lock, and it holds
\* it at most once; the flag is set only by a step that acquires and cleared
\* only by a step that releases: a failed Lock() leaves it false, a failed
\* Unlock() leaves it true.
C19_FlagAgreesWithLock ==
  /\ [](Sql => \A p \in Procs :
                 /\ advisory[p] <= 1
                 /\ OpenHandle(p) => (isLocked[p] <=> advisory[p] = 1))
  /\ [][Sql => \A p \in Procs :
                 /\ (~isLocked[p] /\ isLocked'[p]) =>
                      advisory'[p] = advisory[p] + 1
                 /\ (isLocked[p] /\ ~isLocked'[p]) =>
                      (advisory[p] = 1 /\ advisory'[p] = 0)
                 /\ (ret' = Return("Lock", "try lock failed", TRUE)
                     /\ SqlLockExec(p))
                      => (~isLocked'[p] /\ advisory' = advisory)
                 /\ (ret' = Return("Unlock", "database.Error", TRUE)
                     /\ SqlUnlock(p))
                      => (isLocked'[p] /\ advisory' = advisory)]_vars

\* an Unlock() has failed on a handle that holds the lock: the flag is
\* still set and the session still holds the lock
C19_Witness ==
  /\ Sql
  /\ ret = Return("Unlock", "database.Error", TRUE)
  /\ \E p \in Procs : pc[p] = "idle" /\ isLocked[p] /\ advisory[p] = 1

====
